---------------------------- MODULE Spec2Model ----------------------------
(***************************************************************************)
(* A model of XMLGenerator (src/src/xml_generator.py): the field           *)
(* normalizers, the journal and article fragment builders, the envelope,   *)
(* and generate_xml run any number of times on one instance.               *)
(*                                                                         *)
(* Text.  A Python str is a sequence of atoms.  An atom is a one-element   *)
(* piece of text: a character ("1", "-", "X", " ", "_") or a literal       *)
(* substring that the code only ever tests as a whole ("http", "://",      *)
(* "journal.xlsx").  The text is the concatenation of its atoms, in order. *)
(* A missing cell (pandas NaN, or a column that is absent so that          *)
(* Series.get returns None) is the value NaN.                              *)
(*                                                                         *)
(* XML.  A fragment is the sequence of the lines appended to `parts`;      *)
(* a line is a record [tag, text] holding the markup of the line and the   *)
(* text interpolated into it.  "\n".join is concatenation of line lists.   *)
(***************************************************************************)
EXTENDS Integers, Sequences, FiniteSets, TLC

VARIABLES
    folder,        \* the input folder: file names, and the rows of the two spreadsheets
    journal_file,  \* self.journal_file (name inside the folder)
    article_file,  \* self.article_file
    base_filename, \* self.base_filename
    journal_data,  \* self.journal_data: None, or the rows read
    article_data,  \* self.article_data
    journal_xml,   \* self.journal_xml
    article_xml,   \* self.article_xml
    combined_xml,  \* generate_xml's local combined_xml
    outfile,       \* the output file ../output/<base>.xml: Absent, or a File
    log,           \* the stage messages logged by the current generate_xml call
    pc,            \* where generate_xml stands
    result,        \* how the last generate_xml call ended: "none", "running", "ok", or the exception raised
    runs           \* generate_xml calls started so far

vars == <<folder, journal_file, article_file, base_filename, journal_data,
          article_data, journal_xml, article_xml, combined_xml, outfile, log,
          pc, result, runs>>

-----------------------------------------------------------------------------
(* Bounds of the model *)

MaxRuns == 2        \* generate_xml calls on the one instance
MaxDiskRows == 2    \* article rows in a spreadsheet of the multi-run model
MaxRows == 2        \* article rows in the single-call model
MaxIssnLen == 9     \* atoms in an ISSN cell, whitespace around them aside
MaxUrlLen == 4      \* atoms in a URL cell

-----------------------------------------------------------------------------
(* Text *)

NaN == <<"<NaN>">>
Empty == <<>>

\* Python's None; pandas' DataFrame of the rows read
None == [none |-> TRUE]
DataFrame(rows) == [none |-> FALSE, rows |-> rows]

\* a path that does not exist; a file and what is in it
Absent == [there |-> FALSE]
File(content) == [there |-> TRUE, content |-> content]

Digits == {"1", "2"}
Space == " "

\* str.strip(): leading and trailing whitespace removed
RECURSIVE LStrip(_)
LStrip(s) == IF s # <<>> /\ Head(s) = Space THEN LStrip(Tail(s)) ELSE s

RECURSIVE RStrip(_)
RStrip(s) ==
    IF s # <<>> /\ s[Len(s)] = Space THEN RStrip(SubSeq(s, 1, Len(s) - 1)) ELSE s

Strip(s) == RStrip(LStrip(s))

\* _safe: NaN to '', else str(v).strip()
Safe(v) == IF v = NaN THEN Empty ELSE Strip(v)

\* str.replace(old, ''): every atom equal to old removed
RECURSIVE Remove(_, _)
Remove(s, old) ==
    IF s = <<>> THEN <<>>
    ELSE IF Head(s) = old THEN Remove(Tail(s), old)
    ELSE <<Head(s)>> \o Remove(Tail(s), old)

\* re \d{n} against the whole of s
IsDigits(s, n) == Len(s) = n /\ \A i \in 1..Len(s) : s[i] \in Digits

\* re.fullmatch(r'\d{4}-\d{3}[\dX]', s)
MatchesHyphenated(s) ==
    /\ Len(s) = 9
    /\ IsDigits(SubSeq(s, 1, 4), 4)
    /\ s[5] = "-"
    /\ IsDigits(SubSeq(s, 6, 8), 3)
    /\ s[9] \in Digits \cup {"X"}

\* _fmt_issn with the hyphens left in before the 8-digit test
FmtIssnKeepingHyphens(value) ==
    LET s == Safe(value)
    IN  IF IsDigits(s, 8) THEN SubSeq(s, 1, 4) \o <<"-">> \o SubSeq(s, 5, 8)
        ELSE IF MatchesHyphenated(Safe(value)) THEN Safe(value)
        ELSE Empty

\* _fmt_issn
FmtIssn(value) ==
    LET s == Remove(Safe(value), "-")
    IN  IF IsDigits(s, 8) THEN SubSeq(s, 1, 4) \o <<"-">> \o SubSeq(s, 5, 8)
        ELSE IF MatchesHyphenated(Safe(value)) THEN Safe(value)
        ELSE Empty

\* re.match(r'^(https?|ftp)://', v)
IsPrefix(p, s) == Len(p) <= Len(s) /\ SubSeq(s, 1, Len(p)) = p

MatchesScheme(v) ==
    \/ IsPrefix(<<"http", "://">>, v)
    \/ IsPrefix(<<"http", "s", "://">>, v)
    \/ IsPrefix(<<"ftp", "://">>, v)

\* _url_or_empty testing the scheme without regard to case
UrlOrEmptyAnyCase(v0) ==
    LET v == Safe(v0)
        lower == [i \in 1..Len(v) |-> IF v[i] = "HTTP" THEN "http" ELSE v[i]]
    IN  IF v # Empty /\ MatchesScheme(lower) THEN v ELSE Empty

\* _url_or_empty
UrlOrEmpty(v0) ==
    LET v == Safe(v0)
    IN  IF v # Empty /\ MatchesScheme(v) THEN v ELSE Empty

-----------------------------------------------------------------------------
(* Dates.  A date cell is NaN or a text whose atoms are number tokens      *)
(* ("2024", "05", "5") and separators.  pandas.to_datetime(value,          *)
(* errors='coerce') gives NaT or a Timestamp; of its many accepted forms   *)
(* the model has ISO year-month-day (padded or not), ISO year-month and a  *)
(* bare year, for which pandas fills the missing month and day with 1.     *)

NaT == [nat |-> TRUE]
Timestamp(y, m, d) == [nat |-> FALSE, year |-> y, month |-> m, day |-> d]

\* Timestamp.min is in 1677 and Timestamp.max in 2262
Years == 1678..2261

Pad2(n) == IF n < 10 THEN "0" \o ToString(n) ELSE ToString(n)

\* the year tokens, each with the year it stands for
YearTokens == {<<ToString(y), y>> : y \in Years}

IsYear(a) == \E t \in YearTokens : t[1] = a
YearNum(a) == (CHOOSE t \in YearTokens : t[1] = a)[2]
IsNum(a, hi) == \E n \in 1..hi : a \in {ToString(n), Pad2(n)}
NumOf(a, hi) == CHOOSE n \in 1..hi : a \in {ToString(n), Pad2(n)}
IsPadded(a, hi) == \E n \in 1..hi : a = Pad2(n)

IsLeap(y) == (y % 4 = 0 /\ y % 100 # 0) \/ y % 400 = 0
DaysIn(y, m) ==
    IF m = 2 THEN (IF IsLeap(y) THEN 29 ELSE 28)
    ELSE IF m \in {4, 6, 9, 11} THEN 30 ELSE 31

\* pd.to_datetime(value, errors='coerce')
ToDatetime(value) ==
    LET s == value
    IN  IF value = NaN THEN NaT
        ELSE IF /\ Len(s) = 5 /\ s[2] = "-" /\ s[4] = "-"
                /\ IsYear(s[1]) /\ IsNum(s[3], 12) /\ IsNum(s[5], 31)
                /\ NumOf(s[5], 31) <= DaysIn(YearNum(s[1]), NumOf(s[3], 12))
             THEN Timestamp(YearNum(s[1]), NumOf(s[3], 12), NumOf(s[5], 31))
        ELSE IF Len(s) = 3 /\ s[2] = "-" /\ IsYear(s[1]) /\ IsPadded(s[3], 12)
             THEN Timestamp(YearNum(s[1]), NumOf(s[3], 12), 1)
        ELSE IF Len(s) = 1 /\ IsYear(s[1])
             THEN Timestamp(YearNum(s[1]), 1, 1)
        ELSE NaT

\* _ymd: <<Y, M, D>> as texts, three empty texts when not parseable
Ymd(value) ==
    LET dt == ToDatetime(value)
    IN  IF dt.nat THEN <<Empty, Empty, Empty>>
        ELSE <<<<ToString(dt.year)>>, <<Pad2(dt.month)>>, <<Pad2(dt.day)>>>>

-----------------------------------------------------------------------------
(* XML lines *)

Line(tag) == [tag |-> tag, text |-> Empty]
El(tag, text) == [tag |-> tag, text |-> text]
If(c, lines) == IF c THEN lines ELSE <<>>

\* the publication_date block of create_journal_xml and create_article_xml
DateBlock(media, y, m, d) ==
    If(y # Empty /\ m # Empty /\ d # Empty,
       <<Line("<publication_date media_type='" \o media \o "'>"),
         El("<month>", m), El("<day>", d), El("<year>", y),
         Line("</publication_date>")>>)

\* the doi_data block of create_journal_xml (journal and issue)
DoiBlock(doi, url) ==
    If(doi # Empty \/ url # Empty,
       <<Line("<doi_data>")>>
       \o If(doi # Empty, <<El("<doi>", doi)>>)
       \o If(url # Empty, <<El("<resource>", url)>>)
       \o <<Line("</doi_data>")>>)

JournalColumns ==
    {"Journal Title", "Abbrev", "Print_ISSN", "Electronic_ISSN", "Journal_DOI",
     "Journal_URL", "Volume", "Issue", "Issue_DOI", "Issue_URL",
     "Pub_Date_Print", "Pub_Date_Online"}

\* create_journal_xml, lines 100-166: the fragment built from the first row
JournalXmlOf(journal) ==
    LET p == Ymd(journal["Pub_Date_Print"])
        o == Ymd(journal["Pub_Date_Online"])
        p_issn == FmtIssn(journal["Print_ISSN"])
        e_issn == FmtIssn(journal["Electronic_ISSN"])
        jtitle == Safe(journal["Journal Title"])
        jabbrev == Safe(journal["Abbrev"])
        jdoi == Safe(journal["Journal_DOI"])
        jurl == UrlOrEmpty(journal["Journal_URL"])
        volume == Safe(journal["Volume"])
        issue == Safe(journal["Issue"])
        issue_doi == Safe(journal["Issue_DOI"])
        issue_url == UrlOrEmpty(journal["Issue_URL"])
    IN  <<Line("<journal_metadata>"), El("<full_title>", jtitle)>>
        \o If(jabbrev # Empty, <<El("<abbrev_title>", jabbrev)>>)
        \o If(p_issn # Empty, <<El("<issn media_type='print'>", p_issn)>>)
        \o If(e_issn # Empty, <<El("<issn media_type='electronic'>", e_issn)>>)
        \o DoiBlock(jdoi, jurl)
        \o <<Line("</journal_metadata>"), Line("<journal_issue>")>>
        \o DateBlock("print", p[1], p[2], p[3])
        \o DateBlock("online", o[1], o[2], o[3])
        \o If(volume # Empty,
              <<Line("<journal_volume>"), El("<volume>", volume),
                Line("</journal_volume>")>>)
        \o If(issue # Empty, <<El("<issue>", issue)>>)
        \o DoiBlock(issue_doi, issue_url)
        \o <<Line("</journal_issue>")>>

-----------------------------------------------------------------------------
(* Articles *)

AuthorSlots == 5

\* the loop of lines 202-218 marking slot 1 'first' and every other slot 'additional'
RECURSIVE PersonsBySlotNumber(_, _, _)
PersonsBySlotNumber(article, i, first_written) ==
    IF i > AuthorSlots THEN <<>>
    ELSE LET fname == Safe(article.fname[i])
             mname == Safe(article.mname[i])
             lname == Safe(article.lname[i])
             inst == Safe(article.inst[i])
             sequence == IF i = 1 THEN "first" ELSE "additional"
             given == Strip(fname \o If(mname # Empty, <<Space>> \o mname))
         IN  IF fname # Empty
             THEN <<Line("<person_name contributor_role='author' sequence='"
                         \o sequence \o "'>"),
                    El("<given_name>", given)>>
                  \o If(lname # Empty, <<El("<surname>", lname)>>)
                  \o If(inst # Empty, <<El("<affiliation>", inst)>>)
                  \o <<Line("</person_name>")>>
                  \o PersonsBySlotNumber(article, i + 1, TRUE)
             ELSE PersonsBySlotNumber(article, i + 1, first_written)

\* lines 202-218: the person_name entries of slots i..5
RECURSIVE Persons(_, _, _)
Persons(article, i, first_written) ==
    IF i > AuthorSlots THEN <<>>
    ELSE LET fname == Safe(article.fname[i])
             mname == Safe(article.mname[i])
             lname == Safe(article.lname[i])
             inst == Safe(article.inst[i])
             sequence == IF ~first_written THEN "first" ELSE "additional"
             given == Strip(fname \o If(mname # Empty, <<Space>> \o mname))
         IN  IF fname # Empty
             THEN <<Line("<person_name contributor_role='author' sequence='"
                         \o sequence \o "'>"),
                    El("<given_name>", given)>>
                  \o If(lname # Empty, <<El("<surname>", lname)>>)
                  \o If(inst # Empty, <<El("<affiliation>", inst)>>)
                  \o <<Line("</person_name>")>>
                  \o Persons(article, i + 1, TRUE)
             ELSE Persons(article, i + 1, first_written)

\* the block with doi_data appended before the contributors
ArticleBlockDoiDataEarly(article) ==
    LET title == Safe(article.title)
        doi == Safe(article.doi)
        resource == UrlOrEmpty(article.fulltext_url)
        ymd == Ymd(article.publication_date)
    IN  <<Line("<journal_article publication_type=\"full_text\">"),
          Line("<titles>"), El("<title>", title), Line("</titles>"),
          Line("<doi_data>")>>
        \o If(doi # Empty, <<El("<doi>", doi)>>)
        \o <<El("<resource>", resource), Line("</doi_data>"),
             Line("<contributors>")>>
        \o Persons(article, 1, FALSE)
        \o <<Line("</contributors>")>>
        \o DateBlock("online", ymd[1], ymd[2], ymd[3])
        \o <<Line("</journal_article>")>>

\* lines 180-238: the journal_article block of one row whose resource is valid
ArticleBlock(article) ==
    LET title == Safe(article.title)
        doi == Safe(article.doi)
        resource == UrlOrEmpty(article.fulltext_url)
        ymd == Ymd(article.publication_date)
    IN  <<Line("<journal_article publication_type=\"full_text\">"),
          Line("<titles>"), El("<title>", title), Line("</titles>"),
          Line("<contributors>")>>
        \o Persons(article, 1, FALSE)
        \o <<Line("</contributors>")>>
        \o DateBlock("online", ymd[1], ymd[2], ymd[3])
        \o <<Line("<doi_data>")>>
        \o If(doi # Empty, <<El("<doi>", doi)>>)
        \o <<El("<resource>", resource), Line("</doi_data>"),
             Line("</journal_article>")>>

\* lines 185-187: the row is refused
MissingResource(article) == UrlOrEmpty(article.fulltext_url) = Empty

\* the loop of lines 179-238 skipping a refused row instead of raising
RECURSIVE ArticleXmlListSkipping(_)
ArticleXmlListSkipping(rows) ==
    IF rows = <<>> THEN [raised |-> FALSE, xml |-> <<>>]
    ELSE LET rest == ArticleXmlListSkipping(Tail(rows))
         IN  IF MissingResource(Head(rows)) THEN rest
             ELSE [raised |-> FALSE, xml |-> ArticleBlock(Head(rows)) \o rest.xml]

\* the loop of lines 179-238 putting each block in front of the earlier ones
RECURSIVE ArticleXmlListPrepending(_)
ArticleXmlListPrepending(rows) ==
    IF rows = <<>> THEN [raised |-> FALSE, xml |-> <<>>]
    ELSE IF MissingResource(Head(rows)) THEN [raised |-> TRUE, xml |-> <<>>]
    ELSE LET rest == ArticleXmlListPrepending(Tail(rows))
         IN  IF rest.raised THEN rest
             ELSE [raised |-> FALSE, xml |-> rest.xml \o ArticleBlock(Head(rows))]

\* lines 176-246: the rows in order; the first refused row raises ValueError,
\* otherwise the blocks are joined
RECURSIVE ArticleXmlList(_)
ArticleXmlList(rows) ==
    IF rows = <<>> THEN [raised |-> FALSE, xml |-> <<>>]
    ELSE IF MissingResource(Head(rows)) THEN [raised |-> TRUE, xml |-> <<>>]
    ELSE LET rest == ArticleXmlList(Tail(rows))
         IN  IF rest.raised THEN rest
             ELSE [raised |-> FALSE, xml |-> ArticleBlock(Head(rows)) \o rest.xml]

-----------------------------------------------------------------------------
(* File discovery *)

EndsWith(s, suffix) ==
    Len(suffix) <= Len(s) /\ SubSeq(s, Len(s) - Len(suffix) + 1, Len(s)) = suffix

\* find_journal_file, line 65: filename.endswith('_journal.xlsx')
IsJournalFileName(filename) == EndsWith(filename, <<"_", "journal.xlsx">>)

\* str.split('_')[0]: the text before the first underscore
RECURSIVE BeforeUnderscore(_)
BeforeUnderscore(s) ==
    IF s = <<>> \/ Head(s) = "_" THEN <<>>
    ELSE <<Head(s)>> \o BeforeUnderscore(Tail(s))

\* extract_base_filename (os.path.basename undoes find_journal_file's os.path.join)
ExtractBaseFilename(file) == BeforeUnderscore(file)

\* initialize_article_file
ArticleFileName(base) == base \o <<"_", "articles.xlsx">>

-----------------------------------------------------------------------------
(* The envelope *)

\* datetime.now().strftime('%Y%m%d%H%M%S') in the n-th call: the clock has moved on
Now(n) == "2026110312000" \o ToString(n)

\* combine_xml, lines 252-276
CombinedXml(data, base, jxml, axml, timestamp) ==
    LET doi == Safe(data.rows[1]["Journal_DOI"])
        batch_id == IF doi # Empty THEN doi ELSE base
    IN  [doi_batch_id |-> batch_id,
         timestamp |-> timestamp,
         depositor_name |-> "MSSL",
         email_address |-> "memanuel@olemiss.edu",
         registrant |-> "University of Mississippi",
         journal |-> jxml \o axml]

-----------------------------------------------------------------------------
(* Spreadsheets *)

BlankJournal == [c \in JournalColumns |-> NaN]

BlankArticle ==
    [title |-> NaN, doi |-> NaN, fulltext_url |-> NaN, publication_date |-> NaN,
     fname |-> [i \in 1..AuthorSlots |-> NaN],
     mname |-> [i \in 1..AuthorSlots |-> NaN],
     lname |-> [i \in 1..AuthorSlots |-> NaN],
     inst |-> [i \in 1..AuthorSlots |-> NaN]]

\* the sheets of at most max rows over the row kinds
Sheets(kinds, max) == UNION {[1..n -> kinds] : n \in 0..max}

Texts(atoms, max) == UNION {[1..n -> atoms] : n \in 0..max}

ValidUrl == <<"http", "s", "://", "x">>
OtherUrl == <<"ftp", "://", "y">>

\* file names a folder listing may hold
FileNames ==
    {<<"a", "_", "journal.xlsx">>, <<"a", "_", "b", "_", "journal.xlsx">>,
     <<"_", "journal.xlsx">>, <<"a", "journal.xlsx">>, <<"a", "_", "articles.xlsx">>}

\* the folder of the multi-run model

JournalRows ==
    {[BlankJournal EXCEPT !["Journal Title"] = <<"T">>, !["Journal_DOI"] = d] :
        d \in {NaN, <<Space>>, <<"10.1/j">>}}

JournalSheets == Sheets(JournalRows, 1)

ArticleRows ==
    {[BlankArticle EXCEPT !.title = <<"A">>, !.fulltext_url = u] :
        u \in {ValidUrl, NaN}}

ArticleSheets == Sheets(ArticleRows, MaxDiskRows)

Folders(name) ==
    [name : {name},
     journal : {File(sheet) : sheet \in JournalSheets} \cup {Absent},
     articles : {File(sheet) : sheet \in ArticleSheets} \cup {Absent}]

-----------------------------------------------------------------------------
(* generate_xml, one stage per step *)

Logged(msgs) == log' = log \o msgs

\* the failing stage's own handler and lines 304-306: logged by both, raised again
Raise(msgs, exception) ==
    /\ Logged(msgs \o <<"Error during XML generation", exception>>)
    /\ pc' = "idle"
    /\ result' = exception

\* line 295: the call starts; `files` is the folder as it stands then (between
\* two calls the spreadsheets may have been edited, replaced or removed)
GenerateXml ==
    /\ pc = "idle"
    /\ runs < MaxRuns
    /\ runs' = runs + 1
    /\ \E files \in Folders(folder.name) : folder' = files
    /\ pc' = "read"
    /\ result' = "running"
    /\ log' = <<"Starting XML generation process...">>
    /\ UNCHANGED <<journal_file, article_file, base_filename, journal_data,
                   article_data, journal_xml, article_xml, combined_xml, outfile>>

\* read_excel_data
ReadExcelData ==
    /\ pc = "read"
    /\ IF folder.journal = Absent
       THEN /\ Raise(<<"Reading journal data...", "Error reading Excel files">>,
                       "FileNotFoundError")
            /\ UNCHANGED <<journal_data, article_data, article_file>>
       ELSE /\ journal_data' = DataFrame(folder.journal.content)
            /\ article_file' = ArticleFileName(base_filename)
            /\ IF folder.articles = Absent
               THEN /\ Raise(<<"Reading journal data...", "Reading article data...",
                               "Error reading Excel files">>, "FileNotFoundError")
                    /\ UNCHANGED article_data
               ELSE /\ article_data' = DataFrame(folder.articles.content)
                    /\ Logged(<<"Reading journal data...", "Reading article data...">>)
                    /\ pc' = "journal"
                    /\ UNCHANGED result
    /\ UNCHANGED <<folder, journal_file, base_filename, journal_xml, article_xml,
                   combined_xml, outfile, runs>>

\* create_journal_xml followed at once by combine_xml, create_article_xml left out
CreateJournalXmlThenCombine ==
    /\ pc = "journal"
    /\ IF journal_data.rows = <<>>
       THEN /\ Raise(<<"Creating journal XML...", "Error creating journal XML">>,
                       "IndexError")
            /\ UNCHANGED journal_xml
       ELSE /\ journal_xml' = JournalXmlOf(journal_data.rows[1])
            /\ Logged(<<"Creating journal XML...">>)
            /\ pc' = "combine"
            /\ UNCHANGED result
    /\ UNCHANGED <<folder, journal_file, article_file, base_filename, journal_data,
                   article_data, article_xml, combined_xml, outfile, runs>>

\* create_journal_xml; iloc[0] of a sheet with no row raises IndexError
CreateJournalXml ==
    /\ pc = "journal"
    /\ IF journal_data.rows = <<>>
       THEN /\ Raise(<<"Creating journal XML...", "Error creating journal XML">>,
                       "IndexError")
            /\ UNCHANGED journal_xml
       ELSE /\ journal_xml' = JournalXmlOf(journal_data.rows[1])
            /\ Logged(<<"Creating journal XML...">>)
            /\ pc' = "article"
            /\ UNCHANGED result
    /\ UNCHANGED <<folder, journal_file, article_file, base_filename, journal_data,
                   article_data, article_xml, combined_xml, outfile, runs>>

\* create_article_xml logging the ValueError without raising it again
CreateArticleXmlSwallowing ==
    /\ pc = "article"
    /\ LET r == ArticleXmlList(article_data.rows)
       IN  /\ article_xml' = IF r.raised THEN article_xml ELSE r.xml
           /\ Logged(<<"Creating article XML...">>)
           /\ pc' = "combine"
           /\ UNCHANGED result
    /\ UNCHANGED <<folder, journal_file, article_file, base_filename, journal_data,
                   article_data, journal_xml, combined_xml, outfile, runs>>

\* create_article_xml
CreateArticleXml ==
    /\ pc = "article"
    /\ LET r == ArticleXmlList(article_data.rows)
       IN  IF r.raised
           THEN /\ Raise(<<"Creating article XML...", "Error creating article XML">>,
                           "ValueError")
                /\ UNCHANGED article_xml
           ELSE /\ article_xml' = r.xml
                /\ Logged(<<"Creating article XML...">>)
                /\ pc' = "combine"
                /\ UNCHANGED result
    /\ UNCHANGED <<folder, journal_file, article_file, base_filename, journal_data,
                   article_data, journal_xml, combined_xml, outfile, runs>>

\* combine_xml
CombineXml ==
    /\ pc = "combine"
    /\ combined_xml' = CombinedXml(journal_data, base_filename, journal_xml,
                                   article_xml, Now(runs))
    /\ Logged(<<"Combining journal and article XML into a single XML document...">>)
    /\ pc' = "write"
    /\ UNCHANGED <<folder, journal_file, article_file, base_filename, journal_data,
                   article_data, journal_xml, article_xml, outfile, result, runs>>

\* write_to_xml_file: written; or os.makedirs or open fails and the file is as
\* it was; or file.write fails after open(filename, 'w') emptied the file
WriteToXmlFile ==
    /\ pc = "write"
    /\ \/ /\ outfile' = File(combined_xml)
          /\ Logged(<<"Writing combined XML...", "XML generation complete.">>)
          /\ pc' = "idle"
          /\ result' = "ok"
       \/ /\ outfile' \in {outfile, File(Empty)}
          /\ Raise(<<"Writing combined XML...", "Error writing to XML file">>, "OSError")
    /\ UNCHANGED <<folder, journal_file, article_file, base_filename, journal_data,
                   article_data, journal_xml, article_xml, combined_xml, runs>>

-----------------------------------------------------------------------------
(* The instance *)

\* __init__, lines 21-28, on a folder whose listing holds `name`
Discovered(name) ==
    /\ IsJournalFileName(name)
    /\ journal_file = name
    /\ base_filename = ExtractBaseFilename(name)
    /\ article_file = ArticleFileName(ExtractBaseFilename(name))

\* __init__, lines 10-28
Constructed(name) ==
    /\ Discovered(name)
    /\ journal_data = None
    /\ article_data = None
    /\ journal_xml = Empty
    /\ article_xml = Empty

Init ==
    \E name \in FileNames :
        /\ Constructed(name)
        /\ folder \in Folders(name)
        /\ folder.journal # Absent
        /\ combined_xml = None
        /\ outfile = Absent
        /\ log = <<>>
        /\ pc = "idle"
        /\ result = "none"
        /\ runs = 0

Next ==
    \/ GenerateXml
    \/ ReadExcelData
    \/ CreateJournalXml
    \/ CreateArticleXml
    \/ CombineXml
    \/ WriteToXmlFile

Spec == Init /\ [][Next]_vars

-----------------------------------------------------------------------------
(* One call, from the moment read_excel_data has returned.  The states      *)
(* below are those of an instance constructed on a folder holding the two   *)
(* sheets, in its first generate_xml call, after ReadExcelData.             *)

DefaultName == <<"a", "_", "journal.xlsx">>

AfterRead(name, jsheet, asheet) ==
    /\ Discovered(name)
    /\ folder = [name |-> name, journal |-> File(jsheet), articles |-> File(asheet)]
    /\ journal_data = DataFrame(jsheet)
    /\ article_data = DataFrame(asheet)
    /\ journal_xml = Empty
    /\ article_xml = Empty
    /\ combined_xml = None
    /\ outfile = Absent
    /\ log = <<"Starting XML generation process...", "Reading journal data...",
               "Reading article data...">>
    /\ pc = "journal"
    /\ result = "running"
    /\ runs = 1

RestOfCall ==
    \/ CreateJournalXml
    \/ CreateArticleXml
    \/ CombineXml
    \/ WriteToXmlFile

TitledJournal == [BlankJournal EXCEPT !["Journal Title"] = <<"T">>]
ValidArticle == [BlankArticle EXCEPT !.title = <<"A">>, !.fulltext_url = ValidUrl]

(* ISSN cells: every text of digits, hyphens and X up to the bound, as it is
   or with whitespace before or after it *)
IssnAtoms == {"1", "-", "X"}
Padding == {Empty, <<Space>>}
IssnCells(max) ==
    {NaN} \cup {l \o core \o r : l \in Padding, r \in Padding,
                                 core \in Texts(IssnAtoms, max)}

InitIssn ==
    \E v \in IssnCells(MaxIssnLen) :
        AfterRead(DefaultName, <<[TitledJournal EXCEPT !["Print_ISSN"] = v]>>, <<>>)

SpecIssn == InitIssn /\ [][CreateJournalXml]_vars

(* URL cells *)
UrlAtoms == {"http", "s", "ftp", "://", "HTTP", "x", Space}
UrlCells(max) == {NaN} \cup Texts(UrlAtoms, max)

InitUrl ==
    \E v \in UrlCells(MaxUrlLen), d \in {NaN, <<"10.1/j">>} :
        AfterRead(DefaultName,
                  <<[TitledJournal EXCEPT !["Journal_URL"] = v, !["Journal_DOI"] = d,
                                          !["Issue_URL"] = v]>>,
                  <<>>)

SpecUrl == InitUrl /\ [][CreateJournalXml]_vars

(* date cells *)
DateCells ==
    {NaN, Empty, <<"x">>, <<"2024">>, <<"2024", "-", "05">>}
    \cup {<<"2024", "-", m, "-", d>> : m \in {"02", "5"}, d \in {"7", "30"}}

InitDates ==
    \E p \in DateCells, o \in DateCells, a \in DateCells :
        AfterRead(DefaultName,
                  <<[TitledJournal EXCEPT !["Pub_Date_Print"] = p,
                                          !["Pub_Date_Online"] = o]>>,
                  <<[ValidArticle EXCEPT !.publication_date = a]>>)

SpecDates == InitDates /\ [][CreateJournalXml \/ CreateArticleXml]_vars

(* article sheets: rows with one of two valid resource URLs and nothing
   else, or a title, a DOI, a date, an author, or all of them; and rows whose
   resource URL is missing or fails validation *)
FullDate == <<"2024", "-", "5", "-", "7">>

Optional ==
    {[title |-> NaN, doi |-> NaN, date |-> NaN, fname |-> NaN],
     [title |-> <<"A">>, doi |-> NaN, date |-> NaN, fname |-> NaN],
     [title |-> NaN, doi |-> <<"10.1/a">>, date |-> NaN, fname |-> NaN],
     [title |-> NaN, doi |-> NaN, date |-> FullDate, fname |-> NaN],
     [title |-> NaN, doi |-> NaN, date |-> NaN, fname |-> <<"F">>],
     [title |-> <<"A">>, doi |-> <<"10.1/a">>, date |-> FullDate, fname |-> <<"F">>]}

GoodRows ==
    {[BlankArticle EXCEPT !.title = o.title, !.doi = o.doi, !.fulltext_url = u,
                          !.publication_date = o.date, !.fname[2] = o.fname] :
        o \in Optional, u \in {ValidUrl, OtherUrl}}

BadRows ==
    {[BlankArticle EXCEPT !.title = <<"B">>, !.fulltext_url = u] :
        u \in {NaN, <<Space>>, <<"x">>, <<"HTTP", "://", "x">>}}

InitArticles ==
    \E sheet \in Sheets(GoodRows \cup BadRows, MaxRows),
       jsheet \in Sheets({TitledJournal}, 1) :
        AfterRead(DefaultName, jsheet, sheet)

SpecArticles == InitArticles /\ [][RestOfCall]_vars

(* author slots: every assignment of a missing, blank, plain or padded given
   name to the five slots; middle names and surnames on all slots or none *)
GivenNames == {NaN, <<Space>>, <<"F">>, <<Space, "G", Space>>}

AuthorRows(names) ==
    {[ValidArticle EXCEPT !.fname = f,
                          !.mname = [i \in 1..AuthorSlots |-> IF m THEN <<"M">> ELSE NaN],
                          !.lname = [i \in 1..AuthorSlots |->
                                        IF l THEN <<"L", ToString(i)>> ELSE NaN]] :
        f \in [1..AuthorSlots -> names], m \in BOOLEAN, l \in BOOLEAN}

InitAuthors ==
    \E row \in AuthorRows(GivenNames) : AfterRead(DefaultName, <<TitledJournal>>, <<row>>)

SpecAuthors == InitAuthors /\ [][RestOfCall]_vars

-----------------------------------------------------------------------------
(* Reading a fragment back *)

\* the texts of the lines with this tag, in order
RECURSIVE TextsOf(_, _)
TextsOf(lines, tag) ==
    IF lines = <<>> THEN <<>>
    ELSE (IF Head(lines).tag = tag THEN <<Head(lines).text>> ELSE <<>>)
         \o TextsOf(Tail(lines), tag)

TagsOf(lines) == [i \in 1..Len(lines) |-> lines[i].tag]

Has(lines, tag) == \E i \in 1..Len(lines) : lines[i].tag = tag

\* the lines after the first `open` line up to the next `close` line
Between(lines, open, close) ==
    IF ~Has(lines, open) THEN <<>>
    ELSE LET a == CHOOSE i \in 1..Len(lines) :
                     lines[i].tag = open /\ \A j \in 1..(i - 1) : lines[j].tag # open
             b == CHOOSE i \in (a + 1)..Len(lines) :
                     lines[i].tag = close
                     /\ \A j \in (a + 1)..(i - 1) : lines[j].tag # close
         IN  SubSeq(lines, a + 1, b - 1)

JournalMetadata == Between(journal_xml, "<journal_metadata>", "</journal_metadata>")
JournalIssue == Between(journal_xml, "<journal_issue>", "</journal_issue>")

\* the first row of the journal sheet that was read
Journal == journal_data.rows[1]

JournalBuilt == pc = "article"

-----------------------------------------------------------------------------
(* C5: ISSN normalization *)

IssnCell == Journal["Print_ISSN"]
PrintIssn == TextsOf(JournalMetadata, "<issn media_type='print'>")
\* what _fmt_issn returned: the element is emitted exactly when it is not empty
IssnResult == IF PrintIssn = <<>> THEN Empty ELSE PrintIssn[1]

EightDigits(s) == Len(s) = 8 /\ \A i \in 1..8 : s[i] \in Digits
Hyphenated(s) ==
    /\ Len(s) = 9
    /\ s[5] = "-"
    /\ \A i \in {1, 2, 3, 4, 6, 7, 8} : s[i] \in Digits
    /\ s[9] \in Digits \cup {"X"}
HyphenAfterFourth(s) == SubSeq(s, 1, 4) \o <<"-">> \o SubSeq(s, 5, 8)

\* C5 as claimed: an 8-digit string gets a hyphen after the 4th digit, a
\* hyphenated valid ISSN comes back unchanged, every other string gives the
\* empty string.
C5_AsClaimed ==
    JournalBuilt /\ IssnCell # NaN =>
        IF EightDigits(IssnCell) THEN IssnResult = HyphenAfterFourth(IssnCell)
        ELSE IF Hyphenated(IssnCell) THEN IssnResult = IssnCell
        ELSE IssnResult = Empty

\* C5 as amended: an 8-digit string gets a hyphen after the 4th digit and a
\* hyphenated valid ISSN comes back unchanged; for every other string, with
\* t the string without surrounding whitespace: when t without its hyphens
\* is exactly 8 digits the result is those digits with a hyphen after the
\* 4th, otherwise when t is a hyphenated valid ISSN the result is t,
\* otherwise the result is empty.  A missing value gives empty.
C5_IssnNormalization ==
    JournalBuilt =>
        IF IssnCell = NaN THEN IssnResult = Empty
        ELSE IF EightDigits(IssnCell) THEN IssnResult = HyphenAfterFourth(IssnCell)
        ELSE IF Hyphenated(IssnCell) THEN IssnResult = IssnCell
        ELSE LET t == Strip(IssnCell)
                 bare == Remove(t, "-")
             IN  IF EightDigits(bare) THEN IssnResult = HyphenAfterFourth(bare)
                 ELSE IF Hyphenated(t) THEN IssnResult = t
                 ELSE IssnResult = Empty

\* an ISSN with its hyphen after the first digit comes out reformatted
C5_Witness ==
    /\ JournalBuilt
    /\ IssnCell = <<"1", "-", "1", "1", "1", "1", "1", "1", "1">>
    /\ IssnResult = <<"1", "1", "1", "1", "-", "1", "1", "1", "1">>

-----------------------------------------------------------------------------
(* C8: URL normalization *)

UrlCell == Journal["Journal_URL"]
JournalResource == TextsOf(JournalMetadata, "<resource>")
IssueResource == TextsOf(JournalIssue, "<resource>")

StartsWith(s, p) == Len(s) >= Len(p) /\ \A i \in 1..Len(p) : s[i] = p[i]
HasAllowedScheme(s) ==
    \/ StartsWith(s, <<"http", "://">>)
    \/ StartsWith(s, <<"http", "s", "://">>)
    \/ StartsWith(s, <<"ftp", "://">>)

\* C8: the normalized URL is the trimmed value when that starts with
\* http://, https:// or ftp:// in lower case, and empty otherwise (a missing
\* value included); the journal and the issue resource elements carry the
\* normalized URL and are omitted when it is empty, and the doi_data block
\* around the journal's is then there only for a DOI.
C8_UrlNormalization ==
    JournalBuilt =>
        LET t == IF UrlCell = NaN THEN Empty ELSE Strip(UrlCell)
        IN  IF HasAllowedScheme(t)
            THEN JournalResource = <<t>> /\ IssueResource = <<t>>
            ELSE /\ JournalResource = <<>>
                 /\ IssueResource = <<>>
                 /\ ~Has(JournalIssue, "<doi_data>")
                 /\ Has(JournalMetadata, "<doi_data>")
                        <=> Safe(Journal["Journal_DOI"]) # Empty

\* an upper-case scheme: no resource element, in a doi_data block kept for the DOI
C8_Witness ==
    /\ JournalBuilt
    /\ UrlCell = <<"HTTP", "://", "x">>
    /\ Has(JournalMetadata, "<doi>")
    /\ JournalResource = <<>>

-----------------------------------------------------------------------------
(* C6: dates *)

\* the cell's text names a year, a month and a day
NamesYearMonthDay(cell) ==
    cell # NaN /\ Len(cell) = 5 /\ cell[2] = "-" /\ cell[4] = "-"

\* a publication_date element of this media type for this cell is as C6 says:
\* there only for a cell naming year, month and day, and then complete
DateAllOrNothing(lines, media, cell) ==
    LET open == "<publication_date media_type='" \o media \o "'>"
        block == Between(lines, open, "</publication_date>")
    IN  Has(lines, open) =>
            /\ NamesYearMonthDay(cell)
            /\ TagsOf(block) = <<"<month>", "<day>", "<year>">>
            /\ \A i \in 1..3 : block[i].text # Empty

\* C6 as claimed: for the journal's print and online dates and the article's
\* date, a publication_date element is emitted only when the value gives
\* year, month and day; a value missing one of them emits no element; an
\* emitted element holds month, day and year.
C6_AsClaimed ==
    pc = "combine" =>
        /\ DateAllOrNothing(JournalIssue, "print", Journal["Pub_Date_Print"])
        /\ DateAllOrNothing(JournalIssue, "online", Journal["Pub_Date_Online"])
        /\ DateAllOrNothing(article_xml, "online",
                            article_data.rows[1].publication_date)

-----------------------------------------------------------------------------
(* C7: the batch id *)

\* C7 as claimed: the doi_batch_id of the combined document is the journal's
\* DOI when that is not empty after trimming, otherwise the text of the
\* journal file's name before its first underscore; it is never empty.
C7_AsClaimed ==
    pc = "write" =>
        LET cell == Journal["Journal_DOI"]
            doi == IF cell = NaN THEN Empty ELSE Strip(cell)
        IN  /\ combined_xml.doi_batch_id =
                   IF doi # Empty THEN doi ELSE BeforeUnderscore(folder.name)
            /\ combined_xml.doi_batch_id # Empty

-----------------------------------------------------------------------------
(* The article fragment read back *)

ArticleOpen == "<journal_article publication_type=\"full_text\">"
ArticleClose == "</journal_article>"

\* the fragment cut after each closing journal_article line
RECURSIVE Blocks(_)
Blocks(lines) ==
    IF lines = <<>> THEN <<>>
    ELSE LET e == IF Has(lines, ArticleClose)
                  THEN CHOOSE i \in 1..Len(lines) :
                          /\ lines[i].tag = ArticleClose
                          /\ \A j \in 1..(i - 1) : lines[j].tag # ArticleClose
                  ELSE Len(lines)
         IN  <<SubSeq(lines, 1, e)>> \o Blocks(SubSeq(lines, e + 1, Len(lines)))

Count(lines, tag) == Cardinality({i \in 1..Len(lines) : lines[i].tag = tag})

Rows == article_data.rows

\* the cell holds a URL that passes validation
ValidResource(cell) == cell # NaN /\ HasAllowedScheme(Strip(cell))

\* create_article_xml has been called in this call
ArticleStageEntered == \E i \in 1..Len(log) : log[i] = "Creating article XML..."

-----------------------------------------------------------------------------
(* C1: a row without a valid resource URL *)

\* C1: when some row of the article sheet, at any position, has a
\* fulltext_url that is missing or fails validation, the call never reaches
\* combine_xml or write_to_xml_file, never ends well and writes no file; once
\* create_article_xml has run it has raised ValueError, leaving no fragment,
\* and generate_xml has ended with that error.
C1_BadRowFailsBatch ==
    (\E k \in 1..Len(Rows) : ~ValidResource(Rows[k].fulltext_url)) =>
        /\ pc \notin {"combine", "write"}
        /\ result # "ok"
        /\ \A i \in 1..Len(log) : log[i] # "Writing combined XML..."
        /\ outfile = Absent
        /\ combined_xml = None
        /\ ArticleStageEntered =>
               pc = "idle" /\ result = "ValueError" /\ article_xml = Empty

\* the last row, after a valid one, fails validation and the call has ended
C1_Witness ==
    /\ Len(Rows) = MaxRows
    /\ \A k \in 1..(MaxRows - 1) : ValidResource(Rows[k].fulltext_url)
    /\ Rows[MaxRows].fulltext_url = <<"HTTP", "://", "x">>
    /\ result = "ValueError"
    /\ outfile = Absent

-----------------------------------------------------------------------------
(* C3: one block per row, in order *)

ArticlesBuilt == ArticleStageEntered /\ result # "ValueError"

\* the block carries the row's title, DOI and resource URL
BuiltFrom(block, row) ==
    /\ TextsOf(block, "<title>") = <<Safe(row.title)>>
    /\ TextsOf(block, "<resource>") = <<Strip(row.fulltext_url)>>
    /\ TextsOf(block, "<doi>") = If(Safe(row.doi) # Empty, <<Safe(row.doi)>>)
    /\ Has(block, "<given_name>") <=> Safe(row.fname[2]) # Empty
    /\ Has(block, "<year>") <=> row.publication_date # NaN

\* C3: for a sheet of N >= 0 rows that all have a valid resource URL,
\* create_article_xml does not raise and its fragment is exactly N
\* journal_article blocks, the k-th built from the k-th row.
C3_BlocksInRowOrder ==
    /\ ArticleStageEntered /\ (\A k \in 1..Len(Rows) : ValidResource(Rows[k].fulltext_url))
        => result # "ValueError"
    /\ ArticlesBuilt =>
        /\ Count(article_xml, ArticleOpen) = Len(Rows)
        /\ Len(Blocks(article_xml)) = Len(Rows)
        /\ \A k \in 1..Len(Rows) :
               /\ Blocks(article_xml)[k][1].tag = ArticleOpen
               /\ BuiltFrom(Blocks(article_xml)[k], Rows[k])

\* a full sheet of rows that differ, turned into as many blocks
C3_Witness ==
    /\ ArticlesBuilt
    /\ Len(Rows) = MaxRows
    /\ Rows[1].fulltext_url = OtherUrl /\ Rows[1].doi = NaN
    /\ Rows[MaxRows].fulltext_url = ValidUrl /\ Rows[MaxRows].doi # NaN
    /\ Len(Blocks(article_xml)) = MaxRows

-----------------------------------------------------------------------------
(* C9: the children of a journal_article block *)

PersonTags ==
    {"<person_name contributor_role='author' sequence='first'>",
     "<person_name contributor_role='author' sequence='additional'>",
     "<given_name>", "<surname>", "<affiliation>", "</person_name>"}

DateTags ==
    <<"<publication_date media_type='online'>", "<month>", "<day>", "<year>",
      "</publication_date>">>

\* the tags of the block with the person_name entries taken out
Skeleton(block) ==
    LET tags == TagsOf(block)
        Keep(t) == t \notin PersonTags
    IN  SelectSeq(tags, Keep)

Children(date, doi) ==
    <<ArticleOpen, "<titles>", "<title>", "</titles>", "<contributors>",
      "</contributors>">>
    \o If(date, DateTags)
    \o <<"<doi_data>">> \o If(doi, <<"<doi>">>)
    \o <<"<resource>", "</doi_data>", ArticleClose>>

\* C9: every journal_article block holds titles, contributors, the
\* publication_date if there is one, and doi_data, in this order; titles with
\* its title, contributors and doi_data are in every block; the person_name
\* entries are all inside contributors; doi_data holds exactly one resource
\* with a validated URL, after a doi that is there only when it is not empty.
C9_BlockChildrenInOrder ==
    ArticlesBuilt =>
        \A k \in 1..Len(Blocks(article_xml)) :
            LET block == Blocks(article_xml)[k]
            IN  /\ \E date \in BOOLEAN, doi \in BOOLEAN :
                       Skeleton(block) = Children(date, doi)
                /\ \A i \in 1..Len(block) :
                       block[i].tag \in PersonTags =>
                           /\ \E a \in 1..(i - 1) : block[a].tag = "<contributors>"
                           /\ \E b \in (i + 1)..Len(block) : block[b].tag = "</contributors>"
                           /\ \A a \in 1..(i - 1) : block[a].tag # "</contributors>"
                /\ \A i \in 1..Len(block) :
                       block[i].tag = "<resource>" =>
                           block[i].text # Empty /\ HasAllowedScheme(block[i].text)
                /\ \A i \in 1..Len(block) :
                       block[i].tag = "<doi>" => block[i].text # Empty

\* a block with an author, a date and a DOI
C9_Witness ==
    /\ ArticlesBuilt
    /\ Len(Blocks(article_xml)) >= 1
    /\ Skeleton(Blocks(article_xml)[1]) = Children(TRUE, TRUE)
    /\ Has(Blocks(article_xml)[1], "<given_name>")

-----------------------------------------------------------------------------
(* C4: author sequence marking *)

FirstTag == "<person_name contributor_role='author' sequence='first'>"
AdditionalTag == "<person_name contributor_role='author' sequence='additional'>"

\* the slots of the row whose given name is not empty after trimming, in slot order
NamedSlots(row) ==
    LET Named(i) == row.fname[i] # NaN /\ Strip(row.fname[i]) # Empty
    IN  SelectSeq([i \in 1..AuthorSlots |-> i], Named)

\* the opening person_name lines of the fragment, in order
PersonEntries(lines) ==
    LET Opens(t) == t \in {FirstTag, AdditionalTag}
    IN  SelectSeq(TagsOf(lines), Opens)

\* C4: the person_name entries are the slots with a given name that is not
\* empty after trimming, in slot order: as many entries as such slots, the
\* k-th with the given name (and middle name and surname) of the k-th such
\* slot; the first entry is marked 'first' and every later one 'additional'.
C4_AuthorSequence ==
    ArticlesBuilt =>
        LET row == Rows[1]
            slots == NamedSlots(row)
            entries == PersonEntries(article_xml)
            given == TextsOf(article_xml, "<given_name>")
            surnames == TextsOf(article_xml, "<surname>")
        IN  /\ Len(entries) = Len(slots)
            /\ \A k \in 1..Len(entries) :
                   entries[k] = IF k = 1 THEN FirstTag ELSE AdditionalTag
            /\ Len(given) = Len(slots)
            /\ \A k \in 1..Len(slots) :
                   given[k] = Strip(row.fname[slots[k]])
                              \o If(row.mname[slots[k]] # NaN, <<Space, "M">>)
            /\ surnames = IF row.lname[1] = NaN THEN <<>>
                          ELSE [k \in 1..Len(slots) |-> row.lname[slots[k]]]

\* slot 1 missing, slot 2 blank, slots 3 and 5 named: two entries, the first
\* for slot 3 and marked 'first'
C4_Witness ==
    /\ ArticlesBuilt
    /\ Rows[1].fname = <<NaN, <<Space>>, <<Space, "G", Space>>, NaN, <<"F">>>>
    /\ Rows[1].lname[1] # NaN
    /\ PersonEntries(article_xml) = <<FirstTag, AdditionalTag>>
    /\ TextsOf(article_xml, "<surname>") = <<<<"L", "3">>, <<"L", "5">>>>

-----------------------------------------------------------------------------
(* C2: the stages of a call *)

StageOrder ==
    <<"Reading journal data...", "Creating journal XML...", "Creating article XML...",
      "Combining journal and article XML into a single XML document...",
      "Writing combined XML...">>

\* the stages entered so far in the current call, as logged
StageTrace(l) ==
    LET IsStage(m) == \E i \in 1..Len(StageOrder) : StageOrder[i] = m
    IN  SelectSeq(l, IsStage)

Ended(r) == r \notin {"none", "running"}
Failed(r) == r \notin {"none", "running", "ok"}

\* C2: in every call the stages entered are an initial part of read,
\* journal, article, combine, write, each at most once; the output file
\* changes only in the write stage after the four stages before it; a call
\* ends well only after all five; a failure ends the call with the exception
\* passed on as the last thing logged; and once a call has ended nothing
\* happens but the start of a new call.
C2_StagesInOrder ==
    [][ /\ IsPrefix(StageTrace(log'), StageOrder)
        /\ outfile' # outfile \/ result' = "ok" => StageTrace(log') = StageOrder
        /\ Failed(result') =>
               /\ pc' = "idle"
               /\ Len(log') >= 2
               /\ SubSeq(log', Len(log') - 1, Len(log'))
                      = <<"Error during XML generation", result'>>
        /\ Ended(result) =>
               runs' = runs + 1 /\ log' = <<"Starting XML generation process...">>
      ]_vars

\* a call has failed in create_article_xml after two stages, and stopped
C2_Witness ==
    /\ result = "ValueError"
    /\ pc = "idle"
    /\ StageTrace(log) = SubSeq(StageOrder, 1, 3)

-----------------------------------------------------------------------------
(* C10: no stale fragment is written *)

\* C10: whenever a call writes its document, the folder's two sheets were
\* both there and read in this call, every article row has a valid resource
\* URL, and the document is the journal fragment of the folder's journal row
\* followed by one block per row of the folder's article sheet, whatever
\* fragments earlier calls left in the instance.
C10_NoStaleFragment ==
    [][ pc = "write" /\ result' = "ok" =>
            /\ folder.journal.there /\ folder.articles.there
            /\ journal_data = DataFrame(folder.journal.content)
            /\ article_data = DataFrame(folder.articles.content)
            /\ \A k \in 1..Len(Rows) : ValidResource(Rows[k].fulltext_url)
            /\ outfile'.content.timestamp = Now(runs)
            /\ LET written == outfile'.content.journal
                   rows == folder.articles.content
                   cut == CHOOSE i \in 1..Len(written) : written[i].tag = "</journal_issue>"
                   blocks == Blocks(SubSeq(written, cut + 1, Len(written)))
               IN  /\ SubSeq(written, 1, cut) = JournalXmlOf(folder.journal.content[1])
                   /\ Len(blocks) = Len(rows)
                   /\ \A k \in 1..Len(rows) : BuiltFrom(blocks[k], rows[k])
      ]_vars

\* a second call has written its document over the first call's
C10_Witness ==
    /\ runs = 2
    /\ pc = "idle"
    /\ result = "ok"
    /\ outfile = File(combined_xml)
    /\ combined_xml.timestamp = Now(2)
    /\ Len(folder.articles.content) = 1

=============================================================================
